---- MODULE Spec2Model ----
(***************************************************************************)
(* A model of src/subtitles.go (package astisub): the Subtitles document,  *)
(* its timing operations (Order, Add, Duration, ForceDuration, Fragment,   *)
(* Unfragment, Merge) and the two leaf codecs (parseDuration /             *)
(* formatDuration and newColorFromString / Color.String).                  *)
(*                                                                         *)
(* Time offsets are counted in milliseconds (time.Millisecond is the unit).*)
(* An *Item is a record with an `id` field standing for the pointer: two   *)
(* records with the same id are the same object, and a write through one   *)
(* pointer is a write to every record that carries the id.  A slice is a   *)
(* sequence plus its capacity (`cap`), because Fragment's insertion writes *)
(* into the backing array that its range loop reads when the capacity      *)
(* allows it.                                                              *)
(***************************************************************************)
EXTENDS Integers, Sequences, FiniteSets, TLC

VARIABLES
    s,      \* the receiver *Subtitles: [Items, cap, Regions, Styles]
    other,  \* a second document, the argument of Merge
    trace,  \* the operations applied so far: <<[op, arg, before]>>
    dur,    \* the duration codec's inputs and results
    col,    \* the colour codec's inputs and results
    frame   \* the activation record of a running Order/Fragment/Unfragment

vars == <<s, other, trace, dur, col, frame>>

---------------------------------------------------------------------------
(* Bounds of the model *)

MaxItems == 2
MaxTime == 3
MaxSteps == 2

(* time.Millisecond, the unit of every offset of the model *)
Millisecond == 1

---------------------------------------------------------------------------
(* Small helpers *)

Range(f) == {f[x] : x \in DOMAIN f}

Last(seq) == seq[Len(seq)]

MaxOf(S) == CHOOSE x \in S : \A y \in S : y <= x

RECURSIVE JoinStr(_, _)
(* strings.Join *)
JoinStr(parts, sep) ==
    IF Len(parts) = 0 THEN ""
    ELSE IF Len(parts) = 1 THEN parts[1]
    ELSE parts[1] \o sep \o JoinStr(Tail(parts), sep)

(* Line.String: the texts of the line's items joined by a space.  A Line is
   modelled by the sequence of its LineItem.Text values. *)
LineString(l) == JoinStr(l, " ")

(* Item.String: the lines' renderings joined by " - " *)
ItemString(i) == JoinStr([k \in 1..Len(i.Lines) |-> LineString(i.Lines[k])], " - ")

(* A pointer not yet in use: the id of the next allocated Item *)
NextId(items) == IF Len(items) = 0 THEN 1 ELSE 1 + MaxOf({items[k].id : k \in 1..Len(items)})

(* The capacity a slice of capacity `cap` gets when append must make room for
   newLen elements (small slices of pointers: doubling, or the requested length
   rounded up to the allocator's size class) *)
GrowCap(cap, newLen) ==
    IF newLen > 2 * cap
    THEN (IF newLen <= 4 THEN newLen ELSE newLen + (newLen % 2))
    ELSE 2 * cap

AppendCap(cap, newLen) == IF newLen <= cap THEN cap ELSE GrowCap(cap, newLen)

---------------------------------------------------------------------------
(* Subtitles.Order: a bubble sort on StartAt *)

OrderSwap(items, index) ==
    [items EXCEPT ![index] = items[index + 1], ![index + 1] = items[index]]

RECURSIVE OrderPassMutant(_, _, _)
OrderPassMutant(items, index, swapped) ==
    IF index >= Len(items) THEN [Items |-> items, swapped |-> swapped]
    ELSE IF items[index].EndAt > items[index + 1].EndAt
         THEN OrderPassMutant(OrderSwap(items, index), index + 1, TRUE)
         ELSE OrderPassMutant(items, index + 1, swapped)

RECURSIVE OrderPass(_, _, _)
(* one run of the inner for loop; `index` is the position of the left item *)
OrderPass(items, index, swapped) ==
    IF index >= Len(items) THEN [Items |-> items, swapped |-> swapped]
    ELSE IF items[index].StartAt > items[index + 1].StartAt
         THEN OrderPass(OrderSwap(items, index), index + 1, TRUE)
         ELSE OrderPass(items, index + 1, swapped)

RECURSIVE OrderLoop(_)
OrderLoop(items) ==
    LET p == OrderPass(items, 1, FALSE)
    IN IF p.swapped THEN OrderLoop(p.Items) ELSE p.Items

Order(items) == IF Len(items) <= 1 THEN items ELSE OrderLoop(items)

---------------------------------------------------------------------------
(* Subtitles.Add *)

AddMutant(items, d) ==
    [k \in 1..Len(items) |-> [items[k] EXCEPT !.EndAt = @ + d]]

Add(items, d) ==
    [k \in 1..Len(items) |-> [items[k] EXCEPT !.EndAt = @ + d, !.StartAt = @ + d]]

---------------------------------------------------------------------------
(* Subtitles.Duration and Subtitles.ForceDuration *)

Duration(items) == IF Len(items) = 0 THEN 0 ELSE Last(items).EndAt

RECURSIVE ForceScanMutant(_, _, _)
ForceScanMutant(items, index, d) ==
    IF index > Len(items) THEN [Items |-> items, lastIndex |-> 0]
    ELSE IF items[index].StartAt >= d THEN [Items |-> items, lastIndex |-> index]
    ELSE ForceScanMutant(items, index + 1, d)

RECURSIVE ForceScan(_, _, _)
(* the range loop of ForceDuration; lastIndex 0 stands for the code's -1 and
   lastIndex k for the code's k-1 *)
ForceScan(items, index, d) ==
    IF index > Len(items) THEN [Items |-> items, lastIndex |-> 0]
    ELSE IF items[index].StartAt >= d THEN [Items |-> items, lastIndex |-> index]
    ELSE IF items[index].EndAt > d
         THEN ForceScan([items EXCEPT ![index].EndAt = d], index + 1, d)
         ELSE ForceScan(items, index + 1, d)

DummyItem(id, d) ==
    [id |-> id, StartAt |-> d - Millisecond, EndAt |-> d,
     Lines |-> << <<"...">> >>, Style |-> "nil"]

ForceDuration(doc, d) ==
    IF Duration(doc.Items) = d THEN doc
    ELSE LET cut == IF Duration(doc.Items) > d
                    THEN LET r == ForceScan(doc.Items, 1, d)
                         IN IF r.lastIndex # 0
                            THEN SubSeq(r.Items, 1, r.lastIndex - 1)
                            ELSE r.Items
                    ELSE doc.Items
         IN IF Duration(cut) < d
            THEN [doc EXCEPT !.Items = Append(cut, DummyItem(NextId(doc.Items), d)),
                             !.cap = AppendCap(doc.cap, Len(cut) + 1)]
            ELSE [doc EXCEPT !.Items = cut]

---------------------------------------------------------------------------
(* Subtitles.Fragment *)

SetStartAt(items, id, v) ==
    [k \in 1..Len(items) |->
        IF items[k].id = id THEN [items[k] EXCEPT !.StartAt = v] ELSE items[k]]

(* append(s.Items[:i], append([]*Item{newSub}, s.Items[i:]...)...) *)
InsertAt(items, i, x) == SubSeq(items, 1, i - 1) \o <<x>> \o SubSeq(items, i, Len(items))

(* the switch of the range loop: which boundary, if any, cuts sub *)
FragmentCut(sub, fragmentStartAt, fragmentEndAt) ==
    IF sub.StartAt < fragmentStartAt /\ sub.EndAt > fragmentStartAt
    THEN [hit |-> TRUE, at |-> fragmentStartAt]
    ELSE IF sub.StartAt < fragmentEndAt /\ sub.EndAt > fragmentEndAt
         THEN [hit |-> TRUE, at |-> fragmentEndAt]
         ELSE [hit |-> FALSE, at |-> 0]

RECURSIVE FragmentRange(_, _, _, _, _, _)
(* `for i, sub := range s.Items`: the range expression is evaluated once, so
   the loop reads the n slots of the backing array `arr` that s.Items had when
   the loop began.  st.Items is s.Items now, st.cap its capacity, st.shared
   whether s.Items still lives in that backing array. *)
FragmentRange(arr, n, i, st, fragmentStartAt, fragmentEndAt) ==
    IF i > n THEN st
    ELSE LET sub == arr[i]
             cut == FragmentCut(sub, fragmentStartAt, fragmentEndAt)
         IN IF ~cut.hit
            THEN FragmentRange(arr, n, i + 1, st, fragmentStartAt, fragmentEndAt)
            ELSE LET newSub == [sub EXCEPT !.id = NextId(st.Items), !.EndAt = cut.at]
                     items1 == SetStartAt(st.Items, sub.id, cut.at)
                     arr1 == SetStartAt(arr, sub.id, cut.at)
                     items2 == InsertAt(items1, i, newSub)
                     inplace == Len(items2) <= st.cap
                     st2 == [Items |-> items2,
                             cap |-> AppendCap(st.cap, Len(items2)),
                             shared |-> st.shared /\ inplace]
                     arr2 == IF st2.shared THEN SubSeq(items2, 1, n) ELSE arr1
                 IN FragmentRange(arr2, n, i + 1, st2, fragmentStartAt, fragmentEndAt)

(* one iteration of the outer for loop, without the update of the boundaries *)
FragmentPass(items, cap, fragmentStartAt, fragmentEndAt) ==
    LET r == FragmentRange(items, Len(items), 1,
                           [Items |-> items, cap |-> cap, shared |-> TRUE],
                           fragmentStartAt, fragmentEndAt)
    IN [Items |-> r.Items, cap |-> r.cap]

RECURSIVE FragmentLoop(_, _, _, _)
FragmentLoop(st, fragmentStartAt, fragmentEndAt, f) ==
    IF fragmentStartAt < Last(st.Items).EndAt
    THEN FragmentLoop(FragmentPass(st.Items, st.cap, fragmentStartAt, fragmentEndAt),
                      fragmentStartAt + f, fragmentEndAt + f, f)
    ELSE st

(* Fragment(f) for f > 0, where the outer loop ends *)
Fragment(doc, f) ==
    IF Len(doc.Items) = 0 THEN doc
    ELSE LET r == FragmentLoop([Items |-> doc.Items, cap |-> doc.cap], 0, f, f)
         IN [doc EXCEPT !.Items = Order(r.Items), !.cap = r.cap]

---------------------------------------------------------------------------
(* Subtitles.Unfragment *)

RemoveAt(items, j) == SubSeq(items, 1, j - 1) \o SubSeq(items, j + 1, Len(items))

UnfragmentMatchMutant(a, b) == a.EndAt = b.StartAt

UnfragmentMatch(a, b) == ItemString(a) = ItemString(b) /\ a.EndAt = b.StartAt

RECURSIVE UnfragmentLoopMutant(_, _, _)
UnfragmentLoopMutant(items, i, j) ==
    IF i >= Len(items) THEN items
    ELSE IF j > i + 1 \/ j > Len(items) THEN UnfragmentLoopMutant(items, i + 1, i + 2)
    ELSE IF ItemString(items[i]) = ItemString(items[j]) /\ items[i].EndAt = items[j].StartAt
         THEN UnfragmentLoopMutant(RemoveAt([items EXCEPT ![i].EndAt = items[j].EndAt], j), i, j)
         ELSE UnfragmentLoopMutant(items, i, j + 1)

RECURSIVE UnfragmentLoop(_, _, _)
(* the two nested for loops; i and j are positions (the code's i+1, j+1) *)
UnfragmentLoop(items, i, j) ==
    IF i >= Len(items) THEN items
    ELSE IF j > Len(items) THEN UnfragmentLoop(items, i + 1, i + 2)
    ELSE IF UnfragmentMatch(items[i], items[j])
         THEN UnfragmentLoop(RemoveAt([items EXCEPT ![i].EndAt = items[j].EndAt], j), i, j)
         ELSE UnfragmentLoop(items, i, j + 1)

Unfragment(doc) ==
    IF Len(doc.Items) <= 1 THEN doc
    ELSE [doc EXCEPT !.Items = Order(UnfragmentLoop(doc.Items, 1, 2))]

---------------------------------------------------------------------------
(* Subtitles.Merge *)

RECURSIVE MergeMapMutant(_, _, _)
MergeMapMutant(mine, theirs, order) ==
    IF Len(order) = 0 THEN mine
    ELSE LET region == theirs[Head(order)]
         IN MergeMapMutant([k \in DOMAIN mine \cup {region.ID} |->
                               IF k = region.ID THEN region ELSE mine[k]],
                           theirs, Tail(order))

RECURSIVE MergeMap(_, _, _)
(* `for _, region := range i.Regions { if _, ok := s.Regions[region.ID]; !ok
   { s.Regions[region.ID] = region } }` (and the same loop for Styles); `order`
   is the order in which the range visits the keys of the map *)
MergeMap(mine, theirs, order) ==
    IF Len(order) = 0 THEN mine
    ELSE LET region == theirs[Head(order)]
         IN MergeMap(IF region.ID \in DOMAIN mine
                     THEN mine
                     ELSE [k \in DOMAIN mine \cup {region.ID} |->
                              IF k = region.ID THEN region ELSE mine[k]],
                     theirs, Tail(order))

Merge(doc, i, regionOrder, styleOrder) ==
    [Items |-> Order(doc.Items \o i.Items),
     cap |-> AppendCap(doc.cap, Len(doc.Items) + Len(i.Items)),
     Regions |-> MergeMap(doc.Regions, i.Regions, regionOrder),
     Styles |-> MergeMap(doc.Styles, i.Styles, styleOrder)]

---------------------------------------------------------------------------
(* Strings of the codecs: a string is the sequence of its characters *)

DigitChars == <<"0", "1", "2", "3", "4", "5", "6", "7", "8", "9",
                "a", "b", "c", "d", "e", "f">>

DigitChar(n) == DigitChars[n + 1]

(* the value of character c as a digit of `base`, or -1 *)
DigitVal(c, base) ==
    IF \E n \in 1..base : DigitChars[n] = c
    THEN (CHOOSE n \in 1..base : DigitChars[n] = c) - 1
    ELSE -1

RECURSIVE Itoa(_)
(* strconv.Itoa *)
Itoa(n) ==
    IF n < 0 THEN <<"-">> \o Itoa(-n)
    ELSE IF n < 10 THEN <<DigitChar(n)>>
    ELSE Itoa(n \div 10) \o <<DigitChar(n % 10)>>

RECURSIVE DecimalValue(_, _)
DecimalValue(str, acc) ==
    IF Len(str) = 0 THEN acc
    ELSE DecimalValue(Tail(str), 10 * acc + DigitVal(Head(str), 10))

(* strconv.Atoi: an optional sign, then one or more decimal digits *)
Atoi(str) ==
    LET signed == Len(str) > 0 /\ Head(str) \in {"+", "-"}
        body == IF signed THEN Tail(str) ELSE str
    IN IF Len(body) = 0 \/ \E n \in 1..Len(body) : DigitVal(body[n], 10) < 0
       THEN [err |-> TRUE, val |-> 0]
       ELSE [err |-> FALSE,
             val |-> IF signed /\ Head(str) = "-"
                     THEN -DecimalValue(body, 0) ELSE DecimalValue(body, 0)]

RECURSIVE SplitFrom(_, _, _, _)
SplitFrom(str, sep, n, start) ==
    IF n > Len(str) THEN <<SubSeq(str, start, Len(str))>>
    ELSE IF n + Len(sep) - 1 <= Len(str) /\ SubSeq(str, n, n + Len(sep) - 1) = sep
         THEN <<SubSeq(str, start, n - 1)>>
              \o SplitFrom(str, sep, n + Len(sep), n + Len(sep))
         ELSE SplitFrom(str, sep, n + 1, start)

(* strings.Split: the pieces between the occurrences of sep, found from the
   left without overlap; with an empty sep, the characters *)
Split(str, sep) ==
    IF Len(sep) = 0 THEN [n \in 1..Len(str) |-> <<str[n]>>]
    ELSE SplitFrom(str, sep, 1, 1)

RECURSIVE Join(_, _)
(* strings.Join *)
Join(parts, sep) ==
    IF Len(parts) = 0 THEN <<>>
    ELSE IF Len(parts) = 1 THEN parts[1]
    ELSE parts[1] \o sep \o Join(Tail(parts), sep)

RECURSIVE TrimSpace(_)
(* strings.TrimSpace *)
TrimSpace(str) ==
    IF Len(str) > 0 /\ Head(str) = " " THEN TrimSpace(Tail(str))
    ELSE IF Len(str) > 0 /\ Last(str) = " " THEN TrimSpace(SubSeq(str, 1, Len(str) - 1))
    ELSE str

---------------------------------------------------------------------------
(* parseDuration and formatDuration *)

Second == 1000
Minute == 60000
Hour == 3600000

RECURSIVE Pow10(_)
(* int(math.Pow10(n)): 10^n, and 0 for the fractions 10^n, n < 0 *)
Pow10(n) == IF n < 0 THEN 0 ELSE IF n = 0 THEN 1 ELSE 10 * Pow10(n - 1)

parseDuration(i, millisecondSep, numberOfMillisecondDigits) ==
    LET Fail == [o |-> 0, err |-> TRUE]
        parts == Split(i, millisecondSep)
        msText == TrimSpace(Last(parts))
        ms == Atoi(msText)
        milliseconds == IF Len(parts) >= 2
                        THEN ms.val * Pow10(numberOfMillisecondDigits - Len(msText))
                        ELSE 0
        rest == IF Len(parts) >= 2
                THEN Join(SubSeq(parts, 1, Len(parts) - 1), millisecondSep)
                ELSE i
        hms == Split(TrimSpace(rest), <<":">>)
        partSeconds == Last(hms)
        partMinutes == hms[Len(hms) - 1]
        partHours == IF Len(hms) = 3 THEN hms[1] ELSE <<>>
        seconds == Atoi(TrimSpace(partSeconds))
        minutes == Atoi(TrimSpace(partMinutes))
        hours == IF Len(partHours) > 0 THEN Atoi(TrimSpace(partHours))
                 ELSE [err |-> FALSE, val |-> 0]
    IN IF Len(parts) >= 2 /\ Len(msText) > 3 THEN Fail
       ELSE IF Len(parts) >= 2 /\ ms.err THEN Fail
       ELSE IF Len(hms) # 2 /\ Len(hms) # 3 THEN Fail
       ELSE IF seconds.err THEN Fail
       ELSE IF minutes.err THEN Fail
       ELSE IF hours.err THEN Fail
       ELSE [o |-> milliseconds * Millisecond + seconds.val * Second
                   + minutes.val * Minute + hours.val * Hour,
             err |-> FALSE]

RECURSIVE Zeros(_)
Zeros(n) == IF n <= 0 THEN <<>> ELSE <<"0">> \o Zeros(n - 1)

(* fmt.Sprintf("%.<digits>f", float64(ms) / 1000)[2:] for 0 <= ms < 1000 and
   3 <= digits: the three digits of ms, then zeros (ms/1000 is printed exactly
   to 15 places) *)
FractionText(ms, digits) ==
    Zeros(3 - Len(Itoa(ms))) \o Itoa(ms) \o Zeros(digits - 3)

TwoDigits(n) == (IF n < 10 THEN <<"0">> ELSE <<>>) \o Itoa(n)

formatDurationMutant(i, millisecondSep, numberOfMillisecondDigits) ==
    TwoDigits(i \div Hour) \o <<":">>
    \o TwoDigits((i % Hour) \div Minute) \o <<":">>
    \o TwoDigits((i % Minute) \div Second) \o millisecondSep
    \o Itoa((i % Second) \div Millisecond)

(* formatDuration for i >= 0 *)
formatDuration(i, millisecondSep, numberOfMillisecondDigits) ==
    LET hours == i \div Hour
        minutes == (i % Hour) \div Minute
        seconds == (i % Minute) \div Second
        milliseconds == (i % Second) \div Millisecond
    IN TwoDigits(hours) \o <<":">>
       \o TwoDigits(minutes) \o <<":">>
       \o TwoDigits(seconds) \o millisecondSep
       \o FractionText(milliseconds, numberOfMillisecondDigits)

---------------------------------------------------------------------------
(* Color.String and newColorFromString.  The packed word and the parsed int64
   are wider than the integers of the checker: a machine integer is the
   sequence of its bytes, least significant first, negative values in two's
   complement *)

IsZero(bytes) == \A n \in 1..Len(bytes) : bytes[n] = 0

RECURSIVE MulAdd(_, _, _)
(* bytes * base + carry, with the carry out of the top byte *)
MulAdd(bytes, base, carry) ==
    IF Len(bytes) = 0 THEN [bytes |-> <<>>, carry |-> carry]
    ELSE LET cur == Head(bytes) * base + carry
             rest == MulAdd(Tail(bytes), base, cur \div 256)
         IN [bytes |-> <<cur % 256>> \o rest.bytes, carry |-> rest.carry]

RECURSIVE DivMod(_, _)
(* bytes / base and bytes % base *)
DivMod(bytes, base) ==
    IF Len(bytes) = 0 THEN [bytes |-> <<>>, rem |-> 0]
    ELSE LET high == DivMod(Tail(bytes), base)
             cur == high.rem * 256 + Head(bytes)
         IN [bytes |-> <<cur \div base>> \o high.bytes, rem |-> cur % base]

RECURSIVE NegateFrom(_, _)
NegateFrom(bytes, carry) ==
    IF Len(bytes) = 0 THEN <<>>
    ELSE LET cur == (255 - Head(bytes)) + carry
         IN <<cur % 256>> \o NegateFrom(Tail(bytes), cur \div 256)

(* -bytes in two's complement *)
Negate(bytes) == NegateFrom(bytes, 1)

RECURSIVE FormatBits(_, _)
FormatBits(bytes, base) ==
    IF IsZero(bytes) THEN <<>>
    ELSE LET q == DivMod(bytes, base)
         IN FormatBits(q.bytes, base) \o <<DigitChar(q.rem)>>

(* the digits of an unsigned value *)
FormatUint(bytes, base) ==
    IF IsZero(bytes) THEN <<"0">> ELSE FormatBits(bytes, base)

(* the digits of a signed value *)
FormatInt(bytes, base) ==
    IF Last(bytes) >= 128 THEN <<"-">> \o FormatUint(Negate(bytes), base)
    ELSE FormatUint(bytes, base)

RECURSIVE ParseUint(_, _, _)
(* strconv.ParseUint, 64 bits: the value, or an error on a character that is
   not a digit of the base or on a value that needs more than 8 bytes *)
ParseUint(str, base, acc) ==
    IF Len(str) = 0 THEN [bytes |-> acc, err |-> FALSE]
    ELSE IF DigitVal(Head(str), base) < 0 THEN [bytes |-> acc, err |-> TRUE]
    ELSE LET next == MulAdd(acc, base, DigitVal(Head(str), base))
         IN IF next.carry # 0 THEN [bytes |-> acc, err |-> TRUE]
            ELSE ParseUint(Tail(str), base, next.bytes)

(* strconv.ParseInt(str, base, 64) *)
ParseInt(str, base) ==
    LET signed == Len(str) > 0 /\ Head(str) \in {"+", "-"}
        neg == signed /\ Head(str) = "-"
        body == IF signed THEN Tail(str) ELSE str
        un == ParseUint(body, base, <<0, 0, 0, 0, 0, 0, 0, 0>>)
        cutoff == <<0, 0, 0, 0, 0, 0, 0, 128>>
    IN IF Len(body) = 0 \/ un.err THEN [bytes |-> <<>>, err |-> TRUE]
       ELSE IF ~neg /\ Last(un.bytes) >= 128 THEN [bytes |-> <<>>, err |-> TRUE]
       ELSE IF neg /\ Last(un.bytes) >= 128 /\ un.bytes # cutoff
            THEN [bytes |-> <<>>, err |-> TRUE]
       ELSE [bytes |-> IF neg THEN Negate(un.bytes) ELSE un.bytes, err |-> FALSE]

NilColor == [Alpha |-> 0, Blue |-> 0, Green |-> 0, Red |-> 0]

newColorFromString(str, base) ==
    LET i == ParseInt(str, base)
    IN IF i.err THEN [c |-> NilColor, err |-> TRUE]
       ELSE [c |-> [Alpha |-> i.bytes[4], Blue |-> i.bytes[3],
                    Green |-> i.bytes[2], Red |-> i.bytes[1]],
             err |-> FALSE]

ColorWordMutant(c) == <<c.Blue, c.Green, c.Red, c.Alpha>>

(* uint32(c.Alpha)<<24 | uint32(c.Blue)<<16 | uint32(c.Green)<<8 | uint32(c.Red) *)
ColorWord(c) == <<c.Red, c.Green, c.Blue, c.Alpha>>

(* Color.String; intSize is the width of int on the platform, which int(i)
   reinterprets the word in *)
ColorString(c, base, intSize) ==
    LET i == ColorWord(c)
        hex == FormatUint(i, 16)
    IN IF base = 16 THEN Zeros(8 - Len(hex)) \o hex
       ELSE IF intSize = 32 THEN FormatInt(i, 10)
       ELSE FormatInt(i \o <<0, 0, 0, 0>>, 10)

---------------------------------------------------------------------------
(* The documents the operations are applied to *)

(* NewSubtitles(): no items, empty maps *)
NewSubtitles == [Items |-> <<>>, cap |-> 0, Regions |-> <<>>, Styles |-> <<>>]

(* Lines and style reference of an item.  The first two render to the same
   text "x y" from different lines. *)
Contents ==
    { [Lines |-> << <<"x", "y">> >>, Style |-> "s1"],
      [Lines |-> << <<"x y">> >>, Style |-> "nil"],
      [Lines |-> << <<"z">> >>, Style |-> "s1"] }

PlainContent == [Lines |-> << <<"z">> >>, Style |-> "nil"]

Times == 0..MaxTime

SignedTimes == -1..MaxTime

ItemValue(a, b, c) == [StartAt |-> a, EndAt |-> b, Lines |-> c.Lines, Style |-> c.Style]

(* items with StartAt < EndAt, of every content *)
ProperItems ==
    {v \in {ItemValue(a, b, c) : a \in Times, b \in Times, c \in Contents} :
        v.StartAt < v.EndAt}

(* items with any StartAt and EndAt, also EndAt <= StartAt (the code enforces
   no relation between them) *)
AnyItems == {ItemValue(a, b, PlainContent) : a \in SignedTimes, b \in SignedTimes}

(* items of length 0 and 1 *)
ShortItems == {ItemValue(a, a + n, PlainContent) : a \in Times, n \in 0..1}

RECURSIVE BuiltCap(_)
(* the capacity of a slice built from nil by n appends of one element *)
BuiltCap(n) == IF n = 0 THEN 0 ELSE AppendCap(BuiltCap(n - 1), n)

(* the items of a document built by appending the values vs[1], vs[2], ...:
   item k is a fresh object *)
MkItems(vs, base) ==
    [k \in 1..Len(vs) |->
        [id |-> base + k, StartAt |-> vs[k].StartAt, EndAt |-> vs[k].EndAt,
         Lines |-> vs[k].Lines, Style |-> vs[k].Style]]

MkDoc(vs, base) ==
    [NewSubtitles EXCEPT !.Items = MkItems(vs, base), !.cap = BuiltCap(Len(vs))]

SeqsUpTo(S, n) == UNION {[1..m -> S] : m \in 0..n}

IdleDur == [stage |-> "idle"]
IdleCol == [stage |-> "idle"]
IdleFrame == [pc |-> "idle"]

Record(op, arg) == Append(trace, [op |-> op, arg |-> arg, before |-> s])

---------------------------------------------------------------------------
(* Fragment and Unfragment *)

FragmentSizes == 1..2

InitFrag ==
    /\ s \in {MkDoc(vs, 0) : vs \in SeqsUpTo(ProperItems, MaxItems)}
    /\ other = NewSubtitles
    /\ trace = <<>>
    /\ dur = IdleDur
    /\ col = IdleCol
    /\ frame = IdleFrame

DoFragment ==
    /\ Len(trace) < MaxSteps
    /\ \E f \in FragmentSizes :
          /\ s' = Fragment(s, f)
          /\ trace' = Record("Fragment", f)
    /\ UNCHANGED <<other, dur, col, frame>>

DoUnfragment ==
    /\ Len(trace) < MaxSteps
    /\ s' = Unfragment(s)
    /\ trace' = Record("Unfragment", 0)
    /\ UNCHANGED <<other, dur, col, frame>>

NextFrag == DoFragment \/ DoUnfragment

SpecFrag == InitFrag /\ [][NextFrag]_vars

---------------------------------------------------------------------------
(* ForceDuration *)

ForceTargets == {1, 2, MaxTime + 1}

InitForce ==
    /\ s \in {MkDoc(vs, 0) : vs \in SeqsUpTo(AnyItems, MaxItems)}
    /\ other = NewSubtitles
    /\ trace = <<>>
    /\ dur = IdleDur
    /\ col = IdleCol
    /\ frame = IdleFrame

DoForceDuration ==
    /\ Len(trace) < MaxSteps
    /\ \E d \in ForceTargets :
          /\ s' = ForceDuration(s, d)
          /\ trace' = Record("ForceDuration", d)
    /\ UNCHANGED <<other, dur, col, frame>>

NextForce == DoForceDuration

SpecForce == InitForce /\ [][NextForce]_vars

---------------------------------------------------------------------------
(* Order and Add *)

AddDeltas == {-2, 2}

InitOrder ==
    /\ s \in {MkDoc(vs, 0) : vs \in SeqsUpTo(ShortItems, MaxItems + 1)}
    /\ other = NewSubtitles
    /\ trace = <<>>
    /\ dur = IdleDur
    /\ col = IdleCol
    /\ frame = IdleFrame

DoOrder ==
    /\ Len(trace) < MaxSteps
    /\ s' = [s EXCEPT !.Items = Order(s.Items)]
    /\ trace' = Record("Order", 0)
    /\ UNCHANGED <<other, dur, col, frame>>

DoAdd ==
    /\ Len(trace) < MaxSteps
    /\ \E d \in AddDeltas :
          /\ s' = [s EXCEPT !.Items = Add(s.Items, d)]
          /\ trace' = Record("Add", d)
    /\ UNCHANGED <<other, dur, col, frame>>

NextOrder == DoOrder \/ DoAdd

SpecOrder == InitOrder /\ [][NextOrder]_vars

---------------------------------------------------------------------------
(* Merge *)

Keys == {"k1", "k2"}

(* the Regions (or Styles) maps a document can hold: every entry is stored under
   its own ID, as Merge, the only writer of the maps in the source, stores it.
   `owner` tells the receiver's objects from the other document's. *)
MapsOf(owner) == UNION {[K -> {owner}] : K \in SUBSET Keys}

MkMap(m) == [k \in DOMAIN m |-> [ID |-> k, owner |-> m[k]]]

(* the orders in which a range loop can visit the keys of a map *)
Orders(K) ==
    {o \in [1..Cardinality(K) -> K] : \A a, b \in 1..Cardinality(K) : a # b => o[a] # o[b]}

MergeItems == {ItemValue(a, a + 1, PlainContent) : a \in 0..1}

MergeDocs(owner, base) ==
    {[MkDoc(vs, base) EXCEPT !.Regions = MkMap(r), !.Styles = MkMap(st)] :
        vs \in SeqsUpTo(MergeItems, MaxItems), r \in MapsOf(owner), st \in MapsOf(owner)}

InitMerge ==
    /\ s \in MergeDocs("s", 0)
    /\ other \in MergeDocs("i", MaxItems)
    /\ trace = <<>>
    /\ dur = IdleDur
    /\ col = IdleCol
    /\ frame = IdleFrame

DoMerge ==
    /\ Len(trace) < MaxSteps
    /\ \E regionOrder \in Orders(DOMAIN other.Regions), styleOrder \in Orders(DOMAIN other.Styles) :
          /\ s' = Merge(s, other, regionOrder, styleOrder)
          /\ trace' = Record("Merge", 0)
    /\ UNCHANGED <<other, dur, col, frame>>

NextMerge == DoMerge

SpecMerge == InitMerge /\ [][NextMerge]_vars

---------------------------------------------------------------------------
(* The duration codec: a duration is formatted, and the text parsed back *)

MaxDigits == 4

DurationHours == {0, 1, 12, 100}
DurationMinutes == {0, 7, 59}
DurationSeconds == {0, 7, 59}
DurationMillis == {0, 5, 50, 123, 999}

Durations ==
    {h * Hour + m * Minute + sec * Second + ms * Millisecond :
        h \in DurationHours, m \in DurationMinutes,
        sec \in DurationSeconds, ms \in DurationMillis}

Separators == {<<".">>, <<",">>, <<":">>, <<" ", ".">>, <<>>, <<"5">>}

InitCodec ==
    /\ s = NewSubtitles
    /\ other = NewSubtitles
    /\ trace = <<>>
    /\ dur \in {[stage |-> "input", i |-> d, millisecondSep |-> sep,
                 numberOfMillisecondDigits |-> n, text |-> <<>>,
                 o |-> 0, err |-> FALSE] :
                   d \in Durations, sep \in Separators, n \in 3..MaxDigits}
    /\ col = IdleCol
    /\ frame = IdleFrame

DoFormatDuration ==
    /\ dur.stage = "input"
    /\ dur' = [dur EXCEPT !.stage = "formatted",
                          !.text = formatDuration(dur.i, dur.millisecondSep,
                                                  dur.numberOfMillisecondDigits)]
    /\ UNCHANGED <<s, other, trace, col, frame>>

DoParseDuration ==
    /\ dur.stage = "formatted"
    /\ LET r == parseDuration(dur.text, dur.millisecondSep,
                              dur.numberOfMillisecondDigits)
       IN dur' = [dur EXCEPT !.stage = "parsed", !.o = r.o, !.err = r.err]
    /\ UNCHANGED <<s, other, trace, col, frame>>

NextCodec == DoFormatDuration \/ DoParseDuration

SpecCodec == InitCodec /\ [][NextCodec]_vars

---------------------------------------------------------------------------
(* The colour codec: a colour is written in a base, and the text read back *)

Channels == {0, 1, 127, 128, 255}
Bases == {10, 16}
IntSizes == {32, 64}

InitColor ==
    /\ s = NewSubtitles
    /\ other = NewSubtitles
    /\ trace = <<>>
    /\ dur = IdleDur
    /\ col \in {[stage |-> "input",
                 c |-> [Alpha |-> a, Blue |-> b, Green |-> g, Red |-> r],
                 base |-> base, intSize |-> w, text |-> <<>>,
                 o |-> NilColor, err |-> FALSE] :
                   a \in Channels, b \in Channels, g \in Channels,
                   r \in Channels, base \in Bases, w \in IntSizes}
    /\ frame = IdleFrame

DoColorString ==
    /\ col.stage = "input"
    /\ col' = [col EXCEPT !.stage = "written",
                          !.text = ColorString(col.c, col.base, col.intSize)]
    /\ UNCHANGED <<s, other, trace, dur, frame>>

DoNewColorFromString ==
    /\ col.stage = "written"
    /\ LET r == newColorFromString(col.text, col.base)
       IN col' = [col EXCEPT !.stage = "read", !.o = r.c, !.err = r.err]
    /\ UNCHANGED <<s, other, trace, dur, frame>>

NextColor == DoColorString \/ DoNewColorFromString

SpecColor == InitColor /\ [][NextColor]_vars

---------------------------------------------------------------------------
(* Fragment, one iteration of its outer loop at a time.  A time.Duration is a
   signed integer of TimeBits bits, and the sums of the loop wrap around *)

TimeBits == 4

RECURSIVE Pow2(_)
Pow2(n) == IF n = 0 THEN 1 ELSE 2 * Pow2(n - 1)

Wrap(x) == ((x + Pow2(TimeBits - 1)) % Pow2(TimeBits)) - Pow2(TimeBits - 1)

TermSizes == {-1, 0, 1, 2}

InitTerm ==
    /\ s \in {MkDoc(vs, 0) : vs \in SeqsUpTo(AnyItems, MaxItems)}
    /\ other = NewSubtitles
    /\ trace = <<>>
    /\ dur = IdleDur
    /\ col = IdleCol
    /\ frame = IdleFrame

(* the call, up to the loop *)
FragmentCall ==
    /\ frame.pc = "idle"
    /\ Len(trace) < MaxSteps
    /\ \E f \in TermSizes :
          IF Len(s.Items) = 0
          THEN /\ trace' = Record("Fragment", f)
               /\ UNCHANGED <<s, frame>>
          ELSE /\ frame' = [pc |-> "test", f |-> f, fragmentStartAt |-> 0,
                            fragmentEndAt |-> f, before |-> s]
               /\ UNCHANGED <<s, trace>>
    /\ UNCHANGED <<other, dur, col>>

(* the test of the outer loop, when it holds *)
FragmentTest ==
    /\ frame.pc = "test"
    /\ frame.fragmentStartAt < Last(s.Items).EndAt
    /\ frame' = [frame EXCEPT !.pc = "body"]
    /\ UNCHANGED <<s, other, trace, dur, col>>

(* the body of the outer loop: the range loop and the update of the boundaries *)
FragmentIterate ==
    /\ frame.pc = "body"
    /\ LET r == FragmentPass(s.Items, s.cap, frame.fragmentStartAt, frame.fragmentEndAt)
       IN s' = [s EXCEPT !.Items = r.Items, !.cap = r.cap]
    /\ frame' = [frame EXCEPT !.pc = "test",
                              !.fragmentStartAt = Wrap(@ + frame.f),
                              !.fragmentEndAt = Wrap(@ + frame.f)]
    /\ UNCHANGED <<other, trace, dur, col>>

(* the test of the outer loop, when it fails: the final Order and the return *)
FragmentReturn ==
    /\ frame.pc = "test"
    /\ ~(frame.fragmentStartAt < Last(s.Items).EndAt)
    /\ s' = [s EXCEPT !.Items = Order(s.Items)]
    /\ trace' = Append(trace, [op |-> "Fragment", arg |-> frame.f,
                               before |-> frame.before])
    /\ frame' = IdleFrame
    /\ UNCHANGED <<other, dur, col>>

NextTerm == FragmentCall \/ FragmentTest \/ FragmentIterate \/ FragmentReturn

SpecTerm == InitTerm /\ [][NextTerm]_vars /\ WF_vars(NextTerm)

---------------------------------------------------------------------------
(* Vocabulary of the properties *)

LastOp == trace[Len(trace)]

Before == LastOp.before

Ids(items) == {items[k].id : k \in 1..Len(items)}

ItemOf(items, id) == items[CHOOSE k \in 1..Len(items) : items[k].id = id]

PosOf(items, id) == CHOOSE k \in 1..Len(items) : items[k].id = id

StartOrdered(items) ==
    \A k \in 1..Len(items) - 1 : items[k].StartAt <= items[k + 1].StartAt

(* an item without its identity *)
Value(i) == [StartAt |-> i.StartAt, EndAt |-> i.EndAt, Lines |-> i.Lines, Style |-> i.Style]

Triple(i) == [StartAt |-> i.StartAt, EndAt |-> i.EndAt, Text |-> ItemString(i)]

Count(seq, v) == Cardinality({k \in 1..Len(seq) : seq[k] = v})

SameBag(a, b) ==
    /\ Len(a) = Len(b)
    /\ \A v \in Range(a) \cup Range(b) : Count(a, v) = Count(b, v)

(* equal rendered text, and b starts where a ends *)
Adjacent(a, b) == ItemString(a) = ItemString(b) /\ a.EndAt = b.StartAt

Values(items) == [k \in 1..Len(items) |-> Value(items[k])]

Triples(items) == [k \in 1..Len(items) |-> Triple(items[k])]

---------------------------------------------------------------------------
(* Fragment against its reference result *)

(* the multiples f, 2f, ... strictly below `end` *)
Boundaries(f, end) == {b \in 1..(IF end > 0 THEN end ELSE 0) : b % f = 0 /\ b < end}

RECURSIVE RefPieces(_, _)
RefPieces(item, bs) ==
    LET inside == {b \in bs : item.StartAt < b /\ b < item.EndAt}
    IN IF inside = {} THEN <<item>>
       ELSE LET b == CHOOSE x \in inside : \A y \in inside : x <= y
            IN <<[item EXCEPT !.EndAt = b]>> \o RefPieces([item EXCEPT !.StartAt = b], bs)

RECURSIVE RefFragment(_, _)
RefFragment(items, bs) ==
    IF Len(items) = 0 THEN <<>>
    ELSE RefPieces(Value(Head(items)), bs) \o RefFragment(Tail(items), bs)

\* C2: Fragment(f), f > 0, yields exactly the reference result: every item is cut
\* at every multiple of f strictly inside it and strictly below the end of the
\* item at the last position, nowhere else, the pieces keep lines and style, and
\* the result is start-ordered.
C2_FragmentIsReference ==
    (Len(trace) > 0 /\ LastOp.op = "Fragment") =>
        /\ StartOrdered(s.Items)
        /\ SameBag(Values(s.Items),
                   RefFragment(Before.Items,
                               Boundaries(LastOp.arg, Duration(Before.Items))))

---------------------------------------------------------------------------
(* Unfragment *)

RECURSIVE RefConsecutive(_, _)
(* merging at consecutive positions only, retrying the same position *)
RefConsecutive(items, i) ==
    IF i >= Len(items) THEN items
    ELSE IF Adjacent(items[i], items[i + 1])
         THEN RefConsecutive(RemoveAt([items EXCEPT ![i].EndAt = items[i + 1].EndAt], i + 1), i)
         ELSE RefConsecutive(items, i + 1)

\* C3 as stated: Unfragment merges exactly the items at consecutive positions
\* with equal rendered text and end = start; items with another item between
\* them are never merged.
C3_MergesConsecutiveOnly ==
    (Len(trace) > 0 /\ LastOp.op = "Unfragment") =>
        s.Items = Order(RefConsecutive(Before.Items, 1))

RECURSIVE Absorb(_, _)
(* the item h after it has taken every matching item of `rest`, scanned once
   from left to right, and the items of rest it left *)
Absorb(h, rest) ==
    IF Len(rest) = 0 THEN [item |-> h, rest |-> <<>>]
    ELSE IF Adjacent(h, Head(rest))
         THEN Absorb([h EXCEPT !.EndAt = Head(rest).EndAt], Tail(rest))
         ELSE LET r == Absorb(h, Tail(rest))
              IN [item |-> r.item, rest |-> <<Head(rest)>> \o r.rest]

RECURSIVE RefMergeLater(_)
RefMergeLater(items) ==
    IF Len(items) <= 1 THEN items
    ELSE LET r == Absorb(Head(items), Tail(items))
         IN <<r.item>> \o RefMergeLater(r.rest)

\* C3 amended: Unfragment merges an item with every LATER item of the sequence,
\* consecutive or not, that has the same rendered text and starts where the
\* earlier item (as extended so far) ends, scanning the later items once from
\* left to right; a merge extends the earlier item's end and removes the later
\* item; every other start and end is unchanged, and the result is start-ordered.
C3_MergesLaterItems ==
    (Len(trace) > 0 /\ LastOp.op = "Unfragment") =>
        /\ s.Items = Order(RefMergeLater(Before.Items))
        /\ Ids(s.Items) \subseteq Ids(Before.Items)
        /\ \A id \in Ids(s.Items) :
              LET new == ItemOf(s.Items, id)
                  old == ItemOf(Before.Items, id)
              IN /\ new.StartAt = old.StartAt
                 /\ new.Lines = old.Lines
                 /\ new.Style = old.Style
                 /\ new.EndAt # old.EndAt =>
                       \E r \in Ids(Before.Items) \ Ids(s.Items) :
                          /\ PosOf(Before.Items, r) > PosOf(Before.Items, id)
                          /\ Adjacent(old, ItemOf(Before.Items, r))
        /\ \A r \in Ids(Before.Items) \ Ids(s.Items) :
              \E x \in Ids(Before.Items) :
                  /\ PosOf(Before.Items, x) < PosOf(Before.Items, r)
                  /\ ItemString(ItemOf(Before.Items, x)) = ItemString(ItemOf(Before.Items, r))
                  /\ ItemOf(Before.Items, x).EndAt = ItemOf(Before.Items, r).StartAt
        /\ StartOrdered(s.Items)

\* C3 witness: a merge of two items that had another item between them
C3_Witness ==
    /\ Len(trace) > 0
    /\ LastOp.op = "Unfragment"
    /\ \E id \in Ids(s.Items), r \in Ids(Before.Items) \ Ids(s.Items) :
          /\ PosOf(Before.Items, r) > PosOf(Before.Items, id) + 1
          /\ Adjacent(ItemOf(Before.Items, id), ItemOf(Before.Items, r))
          /\ ItemOf(s.Items, id).EndAt = ItemOf(Before.Items, r).EndAt
          /\ Len(s.Items) = Len(Before.Items) - 1

---------------------------------------------------------------------------
(* Fragment followed by Unfragment *)

RoundTrip ==
    /\ Len(trace) = 2
    /\ trace[1].op = "Fragment"
    /\ trace[2].op = "Unfragment"

Original == trace[1].before.Items

(* no two items with equal rendered text where one ends where the other starts *)
NoTouching(items) ==
    \A a \in 1..Len(items), b \in 1..Len(items) :
        (a # b /\ ItemString(items[a]) = ItemString(items[b])) =>
            items[a].EndAt # items[b].StartAt

(* no two items with equal rendered text that overlap in time *)
NoOverlap(items) ==
    \A a \in 1..Len(items), b \in 1..Len(items) :
        (a # b /\ ItemString(items[a]) = ItemString(items[b])) =>
            ~(items[a].StartAt < items[b].EndAt /\ items[b].StartAt < items[a].EndAt)

\* C10 as stated: on a start-ordered document without touching items of equal
\* text, Fragment(f) then Unfragment() restores the multiset of
\* (start, end, rendered text), also when items of equal text overlap.
C10_RoundTrip ==
    (RoundTrip /\ StartOrdered(Original) /\ NoTouching(Original)) =>
        SameBag(Triples(s.Items), Triples(Original))

\* C10 amended: the same, for documents in which items of equal rendered text
\* neither touch nor overlap in time.
C10_RoundTripDisjoint ==
    (RoundTrip /\ StartOrdered(Original) /\ NoTouching(Original) /\ NoOverlap(Original)) =>
        SameBag(Triples(s.Items), Triples(Original))

\* C10 witness: an item was cut into three pieces and put together again
C10_Witness ==
    /\ RoundTrip
    /\ StartOrdered(Original) /\ NoTouching(Original) /\ NoOverlap(Original)
    /\ Len(trace[2].before.Items) >= Len(Original) + 2
    /\ Len(s.Items) = Len(Original)
    /\ Len(Original) = 2

---------------------------------------------------------------------------
(* ForceDuration *)

TwoCalls(op) ==
    /\ Len(trace) > 1
    /\ LastOp.op = op
    /\ trace[Len(trace) - 1].op = op

\* C1: after ForceDuration(d) with d > 0, Duration() = d, whatever the items
\* and their order; and a second ForceDuration(d) leaves the item sequence
\* (length, and every item's start, end and text) as the first call left it.
C1_ForceDuration ==
    /\ (Len(trace) > 0 /\ LastOp.op = "ForceDuration" /\ LastOp.arg > 0) =>
          Duration(s.Items) = LastOp.arg
    /\ (TwoCalls("ForceDuration") /\ LastOp.arg > 0
            /\ trace[Len(trace) - 1].arg = LastOp.arg) =>
          s.Items = Before.Items

\* C1 witness: two calls with the same target, the first of which clamped the
\* first item and dropped the second
C1_Witness ==
    /\ Len(trace) = 2
    /\ TwoCalls("ForceDuration")
    /\ trace[1].arg = trace[2].arg
    /\ Len(trace[1].before.Items) = 2
    /\ trace[1].before.Items[1].EndAt > trace[1].arg
    /\ Len(s.Items) = 1
    /\ s.Items[1].EndAt = trace[1].arg

---------------------------------------------------------------------------
(* Order *)

\* C5: Order() yields a permutation of the items that is non-decreasing in
\* StartAt and keeps items of equal StartAt in their former relative order, and
\* a second Order() changes nothing.
C5_OrderStable ==
    /\ (Len(trace) > 0 /\ LastOp.op = "Order") =>
          /\ StartOrdered(s.Items)
          /\ SameBag(s.Items, Before.Items)
          /\ \A a, b \in 1..Len(Before.Items) :
                (a < b /\ Before.Items[a].StartAt = Before.Items[b].StartAt) =>
                    PosOf(s.Items, Before.Items[a].id) < PosOf(s.Items, Before.Items[b].id)
    /\ TwoCalls("Order") => s.Items = Before.Items

\* C5 witness: Order() moved an item over two items of equal StartAt
C5_Witness ==
    /\ Len(trace) > 0
    /\ LastOp.op = "Order"
    /\ Len(s.Items) = 3
    /\ Before.Items[1].StartAt = Before.Items[2].StartAt
    /\ Before.Items[3].StartAt < Before.Items[1].StartAt
    /\ s.Items[1].id = Before.Items[3].id

---------------------------------------------------------------------------
(* Add *)

\* C9: Add(d) adds d to every item's StartAt and EndAt and changes nothing else
\* (count, order, lines), and Add(d) followed by Add(-d) restores every StartAt
\* and EndAt, for d of either sign.
C9_AddShifts ==
    /\ (Len(trace) > 0 /\ LastOp.op = "Add") =>
          /\ Len(s.Items) = Len(Before.Items)
          /\ \A k \in 1..Len(s.Items) :
                /\ s.Items[k].id = Before.Items[k].id
                /\ s.Items[k].Lines = Before.Items[k].Lines
                /\ s.Items[k].Style = Before.Items[k].Style
                /\ s.Items[k].StartAt = Before.Items[k].StartAt + LastOp.arg
                /\ s.Items[k].EndAt = Before.Items[k].EndAt + LastOp.arg
    /\ (TwoCalls("Add") /\ LastOp.arg = -trace[Len(trace) - 1].arg) =>
          /\ Len(s.Items) = Len(trace[Len(trace) - 1].before.Items)
          /\ \A k \in 1..Len(s.Items) :
                /\ s.Items[k].StartAt = trace[Len(trace) - 1].before.Items[k].StartAt
                /\ s.Items[k].EndAt = trace[Len(trace) - 1].before.Items[k].EndAt

\* C9 witness: Add(-2) made an offset negative and Add(2) was applied after it
C9_Witness ==
    /\ Len(trace) = 2
    /\ TwoCalls("Add")
    /\ trace[1].arg < 0
    /\ trace[2].arg = -trace[1].arg
    /\ Len(s.Items) >= 2
    /\ \E k \in 1..Len(s.Items) : trace[2].before.Items[k].StartAt < 0

---------------------------------------------------------------------------
(* Merge *)

FirstWriteWins(new, mine, theirs) ==
    /\ DOMAIN new = DOMAIN mine \cup DOMAIN theirs
    /\ \A k \in DOMAIN mine : new[k] = mine[k]
    /\ \A k \in DOMAIN theirs \ DOMAIN mine : new[k] = theirs[k]

\* C6: after Merge(other) the items are the start-ordered combination of the
\* receiver's former items and other's items, and Regions and Styles are the
\* first-write-wins unions: a key of the receiver keeps the receiver's value, a
\* key only other had maps to other's value under the same key.
C6_Merge ==
    (Len(trace) > 0 /\ LastOp.op = "Merge") =>
        /\ StartOrdered(s.Items)
        /\ SameBag(s.Items, Before.Items \o other.Items)
        /\ FirstWriteWins(s.Regions, Before.Regions, other.Regions)
        /\ FirstWriteWins(s.Styles, Before.Styles, other.Styles)

\* C6 witness: both documents defined style "k1", only other defined "k2", and
\* an item of other was sorted in before an item of the receiver
C6_Witness ==
    /\ Len(trace) = 1
    /\ LastOp.op = "Merge"
    /\ DOMAIN Before.Styles = {"k1"}
    /\ DOMAIN other.Styles = {"k1", "k2"}
    /\ s.Styles["k1"].owner = "s"
    /\ s.Styles["k2"].owner = "i"
    /\ Len(Before.Items) > 0 /\ Len(other.Items) > 0
    /\ s.Items[1].id = other.Items[1].id
    /\ s.Items[1].StartAt < Before.Items[1].StartAt

---------------------------------------------------------------------------
(* C4: the duration codec *)

HasDigit(str) == \E n \in 1..Len(str) : DigitVal(str[n], 10) >= 0

RoundTripsDuration == ~dur.err /\ dur.o = dur.i

(* C4 as stated: for every non-negative duration of whole milliseconds, every
   separator and every digit count >= 3, parsing the formatted duration with
   the same separator and digit count returns the duration and no error *)
C4_RoundTripAnyDigits ==
    dur.stage = "parsed" => RoundTripsDuration

(* C4 amended: for every non-negative duration of whole milliseconds, every
   non-empty separator that contains no decimal digit, and the digit count 3,
   parsing the formatted duration with the same separator and digit count
   returns the duration and no error *)
C4_RoundTripThreeDigits ==
    (/\ dur.stage = "parsed"
     /\ dur.numberOfMillisecondDigits = 3
     /\ Len(dur.millisecondSep) > 0
     /\ ~HasDigit(dur.millisecondSep))
        => RoundTripsDuration

C4_Witness ==
    /\ dur.stage = "parsed"
    /\ dur.numberOfMillisecondDigits = 3
    /\ dur.millisecondSep = <<":">>
    /\ dur.i = 100 * Hour + 7 * Minute + 59 * Second + 5 * Millisecond
    /\ dur.text = <<"1", "0", "0", ":", "0", "7", ":", "5", "9", ":", "0", "0", "5">>
    /\ RoundTripsDuration

---------------------------------------------------------------------------
(* C7: the colour codec *)

HexByte(n) == <<DigitChar(n \div 16), DigitChar(n % 16)>>

(* C7: for every colour, in base 16 and in base 10, reading the written colour
   succeeds and returns the same four channels; the word written is
   alpha<<24 | blue<<16 | green<<8 | red, so that its eight hexadecimal digits
   are those of alpha, blue, green and red in this order *)
C7_ColorRoundTrip ==
    /\ (col.stage = "read" => ~col.err /\ col.o = col.c)
    /\ (col.stage \in {"written", "read"} /\ col.base = 16
          => col.text = HexByte(col.c.Alpha) \o HexByte(col.c.Blue)
                        \o HexByte(col.c.Green) \o HexByte(col.c.Red))

C7_Witness ==
    /\ col.stage = "read"
    /\ col.base = 10
    /\ col.intSize = 32
    /\ col.c = [Alpha |-> 255, Blue |-> 0, Green |-> 1, Red |-> 128]
    /\ col.text = <<"-", "1", "6", "7", "7", "6", "8", "3", "2">>
    /\ col.o = col.c
    /\ ~col.err

---------------------------------------------------------------------------
(* C8: termination *)

(* C8: every operation terminates on every finite document for every argument;
   for Fragment, with every signed fragment size: a call of Fragment that has
   entered its loop returns *)
C8_FragmentTerminates ==
    (frame.pc # "idle") ~> (frame.pc = "idle")

====
